---------------------------- MODULE Spec2Model ----------------------------
(***************************************************************************)
(* BinaryPassageRetriever (haystack/nodes/retriever/binary.py): two-stage  *)
(* retrieval over packed binary codes.  The retriever object, its model,   *)
(* its processor and the document store it reads are the state; retrieve,  *)
(* embed_queries, embed_documents and train are the operations.            *)
(*                                                                         *)
(* Conventions                                                             *)
(*  - faiss ids and Python list positions are 0-based, TLA+ sequences are  *)
(*    1-based: the entry with id j is index[j + 1], and                    *)
(*    all_documents[j] of the source is all_documents[j + 1] here.         *)
(*  - A query text is represented by the dense vector the query tower      *)
(*    produces for it in eval mode, in integer units (QueryTexts).         *)
(*  - Dense values are kept as integers: an eval-mode value x is stored as *)
(*    EvalScale * x and a value that survives dropout as TrainScale * x    *)
(*    (dropout rescales by 1 / (1 - p) = 10 / 9 for p = 0.1), so the ratio *)
(*    between the two modes is the one of the source.                      *)
(***************************************************************************)
EXTENDS Integers, Sequences, FiniteSets, TLC

\* ------------------------------------------------------------------ bounds

\* Bytes of one packed code; the embedding dimension is D = 8 * CodeBytes.
CodeBytes == 1

\* Largest number of documents the store holds.
MaxDocs == 3

\* Longest list of texts given to embed_queries.
MaxTexts == 2

\* Largest top_k given to retrieve.
MaxTopK == 2

\* Every +1/-1 code of 1..MaxBits values goes through the pack / unpack
\* round trip.
MaxBits == 9

D == 8 * CodeBytes

\* ---------------------------------------------------------------- helpers

Min(a, b) == IF a < b THEN a ELSE b

\* A function on 1..n as an explicit tuple (an array held in memory): the same
\* value, with its elements computed once.
Array(f) == <<>> \o f

RECURSIVE SumTo(_, _)
SumTo(s, n) == IF n = 0 THEN 0 ELSE s[n] + SumTo(s, n - 1)

SumSeq(s) == SumTo(s, Len(s))

\* 2^n for the bit positions of a byte.
Pow2(n) == <<1, 2, 4, 8, 16, 32, 64, 128>>[n + 1]

\* np.where(x > 0, 1, 0)
\* A threshold that takes 0 for positive.
WhereNonNegative(x) == Array([i \in 1..Len(x) |-> IF x[i] >= 0 THEN 1 ELSE 0])

Where(x) == Array([i \in 1..Len(x) |-> IF x[i] > 0 THEN 1 ELSE 0])

\* np.packbits(bits, axis=-1): MSB first, the last byte padded with zero bits.
PackBits(bits) ==
    LET nbytes == (Len(bits) + 7) \div 8
        bit(i) == IF i <= Len(bits) THEN bits[i] ELSE 0
    IN  Array([b \in 1..nbytes |->
            SumSeq([j \in 1..8 |-> bit(8 * (b - 1) + j) * Pow2(8 - j)])])

\* np.unpackbits(bytes): 8 bits per byte, MSB first; no count is given, so the
\* result has 8 * len(bytes) entries.
ByteBits ==
    [v \in 0..255 |-> Array([j \in 1..8 |-> (v \div Pow2(8 - j)) % 2])]

UnpackBits(bytes) ==
    Array([i \in 1..(8 * Len(bytes)) |->
        ByteBits[bytes[((i - 1) \div 8) + 1]][((i - 1) % 8) + 1]])


\* passage_embeddings * 2 - 1 : turns 1, 0 into 1, -1
ToPlusMinus(bits) == Array([i \in 1..Len(bits) |-> bits[i] * 2 - 1])

\* one row of np.einsum("ijk,ik->ij", passage_embeddings, query_embeddings)
Dot(u, v) == SumSeq([i \in 1..Len(u) |-> u[i] * v[i]])


\* ------------------------------------------------------------ the encoder

\* embeds_dropout_prob = 0.1: a kept component is multiplied by 10 / 9.
EvalScale == 9
TrainScale == 10

\* The query texts, named by what the query tower makes of them.
QueryTexts == {"qA", "qT"}

\* The query tower's output for a text, before dropout and scaling.
\*   qA: positive everywhere but a strongly negative last component
\*   qT: positive on the first half, exactly 0 on the second half
TowerOutput(text) ==
    Array([i \in 1..D |->
        IF text = "qA"
        THEN (IF i = D THEN -4 ELSE 1)
        ELSE (IF 2 * i <= D THEN 1 ELSE 0)])

\* nn.Dropout on the embedding: in eval mode the identity; in train mode each
\* component is zeroed or rescaled, independently.  The masks explored zero
\* nothing or the last component.
DropoutMasks == {{}, {D}}

Dropout(x, training, mask) ==
    IF training
    THEN Array([i \in 1..Len(x) |-> IF i \in mask THEN 0 ELSE TrainScale * x[i]])
    ELSE Array([i \in 1..Len(x) |-> EvalScale * x[i]])

\* HashActivation.forward: +1 if x_i > 0 else -1.
HashForward(x) == Array([i \in 1..Len(x) |-> IF x[i] > 0 THEN 1 ELSE -1])

\* self.model.forward(**batch)[0] for one query:
\* (binary_query, binary_passage, dense_query), binary_passage being None.
ForwardQuery(text, training, mask) ==
    LET dense == Dropout(TowerOutput(text), training, mask)
    IN  [dense_query |-> dense, binary_query |-> HashForward(dense)]

\* The forward passes a call can see: one in eval mode, one per mask in train
\* mode.
ForwardOutcomes(text, training) ==
    {ForwardQuery(text, training, m) :
        m \in (IF training THEN DropoutMasks ELSE {{}})}


\* ------------------------------------------------- document store and index

\* The i-th document written to the store.
Document(i) == [doc_id |-> i]

\* The bits the passage tower and the hash layer give the i-th document:
\* 11110000, 11111111, 00000000 (per byte), then again from the start.
PassageBits(i) ==
    Array([j \in 1..D |->
        CASE i % 3 = 1 -> (IF (j - 1) % 8 < 4 THEN 1 ELSE 0)
          [] i % 3 = 2 -> 1
          [] OTHER     -> 0])

\* Hamming distance of two packed codes of the same length.
Bit(code, i) == ByteBits[code[((i - 1) \div 8) + 1]][((i - 1) % 8) + 1]

Hamming(a, b) == Cardinality({i \in 1..(8 * Len(a)) : Bit(a, i) # Bit(b, i)})

\* raw_index.search(query, k): the ids of up to k entries by ascending Hamming
\* distance, ties by ascending id; all entries when k exceeds their number.
\* A brute-force scan: every id is inserted into the ranking built so far.

\* A scan that breaks ties of distance by descending id.
RECURSIVE InsertRankedTiesDescending(_, _, _)
InsertRankedTiesDescending(ranked, id, dist) ==
    IF ranked = <<>> THEN <<id>>
    ELSE LET h == Head(ranked)
         IN  IF dist[id + 1] < dist[h + 1] \/ (dist[id + 1] = dist[h + 1] /\ id > h)
             THEN <<id>> \o ranked
             ELSE <<h>> \o InsertRankedTiesDescending(Tail(ranked), id, dist)

RECURSIVE InsertRanked(_, _, _)
InsertRanked(ranked, id, dist) ==
    IF ranked = <<>> THEN <<id>>
    ELSE LET h == Head(ranked)
         IN  IF dist[id + 1] < dist[h + 1] \/ (dist[id + 1] = dist[h + 1] /\ id < h)
             THEN <<id>> \o ranked
             ELSE <<h>> \o InsertRanked(Tail(ranked), id, dist)

RECURSIVE RankAll(_, _)
RankAll(n, dist) ==
    IF n = 0 THEN <<>> ELSE InsertRanked(RankAll(n - 1, dist), n - 1, dist)

Search(idx, q, k) ==
    LET dist == Array([i \in 1..Len(idx) |-> Hamming(idx[i], q)])
        ranked == RankAll(Len(idx), dist)
    IN  SubSeq(ranked, 1, Min(k, Len(ranked)))

\* raw_index.reconstruct(id): the stored packed code.
Reconstruct(idx, id) == idx[id + 1]


\* ------------------------------------------------------------------ state

VARIABLES
    all_documents,       \* document_store.all_documents
    index,               \* document_store.faiss_indexes[index]: packed codes by id
    candidates,          \* self.candidates
    top_k,               \* self.top_k
    batch_size,          \* self.batch_size
    devices,             \* len(self.devices)
    training,            \* self.model.training (train / eval mode)
    num_hard_negatives,  \* self.processor.num_hard_negatives
    argsort_ties,        \* how this build's np.argsort orders equal keys
    classes,             \* HashLayer and the subclasses defined so far
    last                 \* the most recent call and what it returned

vars == <<all_documents, index, candidates, top_k, batch_size, devices,
          training, num_hard_negatives, argsort_ties, classes, last>>

retriever ==
    <<candidates, top_k, batch_size, devices, training, num_hard_negatives>>

\* The constructor arguments explored.
Configs ==
    {[top_k |-> 2, batch_size |-> 2, candidates |-> 2, devices |-> 2],
     [top_k |-> 1, batch_size |-> 1, candidates |-> 3, devices |-> 1]}

\* A forward pass that stays on the first device whatever the batch.
ForwardDevicesFirstOnly(rows, n) == {0}

\* The positions in self.devices on which one self.model.forward(**batch)
\* runs for a batch of `rows` rows.  With one device the model is the plain
\* module on devices[0]; with several the constructor wraps it in
\* DataParallel (lines 199-200), whose forward splits the batch along its
\* first axis into chunks of ceil(rows / n) rows and runs chunk j on device j.
ForwardDevices(rows, n) ==
    IF n = 1 THEN {0}
    ELSE LET chunk == (rows + n - 1) \div n
         IN  0..(((rows + chunk - 1) \div chunk) - 1)

\* The builds explored: np.argsort leaves equal keys in their order
\* ("stable") or reverses them ("reversed").
TieOrders == {"stable", "reversed"}

NoCall == [op |-> "none"]

\* hash_layer.py as imported: the class HashLayer, whose body (lines 4-15)
\* assigns no attribute `subclasses`, and whose base nn.Module has none.
\* A class is [base, subclasses]: subclasses is <<>> when the class body
\* assigns no such attribute, and <<names>> for a dict assigned in the body
\* that holds the classes of these names.
ImportedClasses == [c \in {"HashLayer"} |-> [base |-> "Module", subclasses |-> <<>>]]

\* ---------------------------------------------------------------- retrieve

\* A re-ranking that keeps the order of the index search.
ArgSortKeepsOrder(a, ties) == Array([r \in 1..Len(a) |-> r - 1])

\* np.argsort(a) with the default kind ("quicksort"), which is not stable: the
\* result is ascending in a, and the order of equal keys is whatever the build
\* makes it.  0-based positions, as numpy.
ArgSort(a, ties) ==
    LET n == Len(a)
        Before(i, j) ==
            \/ a[i] < a[j]
            \/ a[i] = a[j] /\ (IF ties = "stable" THEN i < j ELSE j < i)
        Rank(i) == 1 + Cardinality({j \in 1..n : Before(j, i)})
    IN  Array([r \in 1..n |-> (CHOOSE i \in 1..n : Rank(i) = r) - 1])

\* a[:k] for k >= 0
Take(a, k) == SubSeq(a, 1, Min(k, Len(a)))

\* The body of retrieve from the clamp of self.candidates on, for the forward
\* pass `out`: what the call returns or raises, and what it leaves in
\* self.candidates.
RetrieveOutcome(text, k, out, docs, idx, cand, ties) ==
    LET clamped == IF cand > Len(docs) THEN Len(docs) ELSE cand
        bin_query_embeddings == PackBits(Where(out.binary_query))
        ids_arr == Search(idx, bin_query_embeddings, clamped)
        passage_embeddings ==
            Array([i \in 1..Len(ids_arr) |->
                ToPlusMinus(UnpackBits(Reconstruct(idx, ids_arr[i])))])
        scores_arr ==
            Array([i \in 1..Len(ids_arr) |->
                Dot(passage_embeddings[i], out.dense_query)])
        sorted_indices ==
            Take(ArgSort(Array([i \in 1..Len(ids_arr) |-> 0 - scores_arr[i]]),
                         ties), k)
        base == [op |-> "retrieve", query |-> text, top_k |-> k,
                 dense_query |-> out.dense_query,
                 bin_query |-> bin_query_embeddings,
                 candidates_before |-> cand, requested |-> clamped,
                 ids_arr |-> ids_arr]
    IN  IF Len(ids_arr) = 0
        THEN \* np.vstack([]) : "need at least one array to concatenate"
             base @@
             [status |-> "ValueError", scores_arr |-> <<>>, documents |-> <<>>]
        ELSE IF \E i \in 1..Len(ids_arr) : ids_arr[i] + 1 > Len(docs)
        THEN \* all_documents[id] : list index out of range
             base @@
             [status |-> "IndexError", scores_arr |-> scores_arr, documents |-> <<>>]
        ELSE base @@
             [status |-> "ok", scores_arr |-> scores_arr,
              documents |->
                Array([i \in 1..Len(sorted_indices) |->
                    docs[ids_arr[sorted_indices[i] + 1] + 1]])]

\* A retrieve that clamps a local copy and leaves self.candidates alone.
RetrieveLocalClamp(text, top_k_arg) ==
    \E out \in ForwardOutcomes(text, training) :
        LET k == IF top_k_arg = <<>> THEN top_k ELSE top_k_arg[1]
            r == RetrieveOutcome(text, k, out, all_documents, index,
                                 candidates, argsort_ties)
        IN  /\ last' = r @@ [input_device |-> 0,
                              devices_used |-> ForwardDevices(1, devices)]
            /\ UNCHANGED <<all_documents, index, candidates, top_k, batch_size,
                           devices, training, num_hard_negatives, argsort_ties,
                           classes>>

\* A retrieve that puts the model in eval mode before encoding the query.
RetrieveInEvalMode(text, top_k_arg) ==
    \E out \in ForwardOutcomes(text, FALSE) :
        LET k == IF top_k_arg = <<>> THEN top_k ELSE top_k_arg[1]
            r == RetrieveOutcome(text, k, out, all_documents, index,
                                 candidates, argsort_ties)
        IN  /\ last' = r @@ [input_device |-> 0,
                              devices_used |-> ForwardDevices(1, devices)]
            /\ candidates' = r.requested
            /\ training' = FALSE
            /\ UNCHANGED <<all_documents, index, top_k, batch_size, devices,
                           num_hard_negatives, argsort_ties, classes>>

\* retrieve(query, top_k=k); top_k_arg is <<>> for None and <<k>> for k.
Retrieve(text, top_k_arg) ==
    \E out \in ForwardOutcomes(text, training) :
        LET k == IF top_k_arg = <<>> THEN top_k ELSE top_k_arg[1]
            r == RetrieveOutcome(text, k, out, all_documents, index,
                                 candidates, argsort_ties)
        IN  /\ last' = r @@ [input_device |-> 0,
                              devices_used |-> ForwardDevices(1, devices)]
            /\ candidates' = r.requested
            /\ UNCHANGED <<all_documents, index, top_k, batch_size, devices,
                           training, num_hard_negatives, argsort_ties, classes>>


\* ------------------------------------------------------- batched embedding

\* NamedDataLoader with a SequentialSampler: consecutive batches of batch_size
\* items, the last one shorter when the items do not fill it.
Batches(items, bs) ==
    Array([b \in 1..((Len(items) + bs - 1) \div bs) |->
        SubSeq(items, (b - 1) * bs + 1, Min(b * bs, Len(items)))])

\* self.model.forward(**batch)[0] in eval mode.  A batch of queries yields
\* binary_query and dense_query and no binary_passage; a batch of passages
\* yields binary_passage alone.  `present` names the outputs that are not None.
ForwardBatch(batch, kind) ==
    IF kind = "query"
    THEN [present |-> {"query", "dense_query"},
          query |-> [i \in 1..Len(batch) |->
                        ForwardQuery(batch[i], FALSE, {}).binary_query],
          dense_query |-> [i \in 1..Len(batch) |->
                        ForwardQuery(batch[i], FALSE, {}).dense_query],
          passages |-> <<>>]
    ELSE [present |-> {"passages"},
          query |-> <<>>,
          dense_query |-> <<>>,
          passages |-> [i \in 1..Len(batch) |->
                        ToPlusMinus(PassageBits(batch[i].doc_id))]]

\* The batches collected last to first.
RECURSIVE CollectReversed(_, _, _)
CollectReversed(batches, kind, key) ==
    IF batches = <<>> THEN <<>>
    ELSE LET out == ForwardBatch(Head(batches), kind)
         IN  CollectReversed(Tail(batches), kind, key)
             \o (IF key \in out.present THEN Array(out[key]) ELSE <<>>)

\* all_embeddings[key] after the loop over the batches, concatenated: the rows
\* of every batch whose output `key` is present, in batch order.
RECURSIVE Collect(_, _, _)
Collect(batches, kind, key) ==
    IF batches = <<>> THEN <<>>
    ELSE LET out == ForwardBatch(Head(batches), kind)
         IN  (IF key \in out.present THEN Array(out[key]) ELSE <<>>)
             \o Collect(Tail(batches), kind, key)

\* _get_predictions(dicts)
GetPredictions(dicts, kind, bs) ==
    LET batches == Batches(dicts, bs)
    IN  [query |-> Collect(batches, kind, "query"),
         passages |-> Collect(batches, kind, "passages"),
         dense_query |-> Collect(batches, kind, "dense_query")]

\* The devices the forward passes of _get_predictions run on: every batch is
\* moved to devices[0] (line 318) and given to self.model.forward (line 322).
BatchDevices(items, bs, n) ==
    LET batches == Batches(items, bs)
    IN  UNION {ForwardDevices(Len(batches[b]), n) : b \in 1..Len(batches)}

\* embed_queries(texts): (result["dense_query"], result["query"]).
EmbedQueries(texts) ==
    LET result == GetPredictions(texts, "query", batch_size)
    IN  /\ last' = [op |-> "embed_queries", texts |-> texts,
                    dense_vectors |-> result.dense_query,
                    binary_vectors |-> result.query,
                    input_device |-> 0,
                    devices_used |-> BatchDevices(texts, batch_size, devices)]
        /\ training' = FALSE
        /\ UNCHANGED <<all_documents, index, candidates, top_k, batch_size,
                       devices, num_hard_negatives, argsort_ties, classes>>

\* An embed_documents that leaves the processor as it finds it.
EmbedDocumentsKeepsNegatives(docs) ==
    LET result == GetPredictions(docs, "passages", batch_size)
    IN  /\ last' = [op |-> "embed_documents", docs |-> docs,
                    embeddings |-> result.passages,
                    hard_negatives_before |-> num_hard_negatives,
                    input_device |-> 0,
                    devices_used |-> BatchDevices(docs, batch_size, devices)]
        /\ training' = FALSE
        /\ UNCHANGED <<all_documents, index, candidates, top_k, batch_size,
                       devices, num_hard_negatives, argsort_ties, classes>>

\* embed_documents(docs): num_hard_negatives is reset when it is not 0
\* (lines 357-362), then the passages go through _get_predictions.
EmbedDocuments(docs) ==
    LET result == GetPredictions(docs, "passages", batch_size)
    IN  /\ last' = [op |-> "embed_documents", docs |-> docs,
                    embeddings |-> result.passages,
                    hard_negatives_before |-> num_hard_negatives,
                    input_device |-> 0,
                    devices_used |-> BatchDevices(docs, batch_size, devices)]
        /\ num_hard_negatives' = 0
        /\ training' = FALSE
        /\ UNCHANGED <<all_documents, index, candidates, top_k, batch_size,
                       devices, argsort_ties, classes>>

\* train(..., num_hard_negatives=n): the processor is reconfigured and the
\* Trainer runs; it leaves the model in train mode, or in eval mode when it
\* ended with an evaluation.
HardNegatives == {0, 1}

Train(n) ==
    /\ num_hard_negatives' = n
    /\ training' \in BOOLEAN
    /\ last' = [op |-> "train"]
    /\ UNCHANGED <<all_documents, index, candidates, top_k, batch_size,
                   devices, argsort_ties, classes>>

\* ------------------------------------------------- the store's own writers

\* A document is written to the store; its code is not in the index yet.
WriteDocument ==
    /\ Len(all_documents) < MaxDocs
    /\ all_documents' = Append(all_documents, Document(Len(all_documents) + 1))
    /\ last' = NoCall
    /\ UNCHANGED <<index, retriever, argsort_ties, classes>>

\* The code of the next document without one is added to the index.
UpdateEmbeddings ==
    /\ Len(index) < Len(all_documents)
    /\ index' = Append(index,
                    PackBits(PassageBits(all_documents[Len(index) + 1].doc_id)))
    /\ last' = NoCall
    /\ UNCHANGED <<all_documents, retriever, argsort_ties, classes>>

\* The newest document is deleted, with its index entry when it has one.
DeleteDocument ==
    /\ Len(all_documents) > 0
    /\ all_documents' = SubSeq(all_documents, 1, Len(all_documents) - 1)
    /\ index' = SubSeq(index, 1, Min(Len(index), Len(all_documents) - 1))
    /\ last' = NoCall
    /\ UNCHANGED <<retriever, argsort_ties, classes>>

\* ------------------------------------------------------------ specification

Init ==
    /\ all_documents = <<>>
    /\ index = <<>>
    /\ \E c \in Configs :
            /\ candidates = c.candidates
            /\ top_k = c.top_k
            /\ batch_size = c.batch_size
            /\ devices = c.devices
    /\ training = TRUE
    /\ num_hard_negatives = 0
    /\ argsort_ties \in TieOrders
    /\ classes = ImportedClasses
    /\ last = NoCall

TopKArgs == {<<>>} \cup {<<k>> : k \in 0..MaxTopK}

RECURSIVE SeqsUpTo(_, _)
SeqsUpTo(S, n) ==
    IF n = 0 THEN {<<>>}
    ELSE LET shorter == SeqsUpTo(S, n - 1)
         IN  shorter \cup {Append(t, x) : t \in shorter, x \in S}

TextLists == SeqsUpTo(QueryTexts, MaxTexts) \ {<<>>}

Next ==
    \/ \E text \in QueryTexts, k \in TopKArgs : Retrieve(text, k)
    \/ \E texts \in TextLists : EmbedQueries(texts)
    \/ \E n \in 1..Len(all_documents) :
            EmbedDocuments(SubSeq(all_documents, 1, n))
    \/ \E n \in HardNegatives : Train(n)
    \/ WriteDocument
    \/ UpdateEmbeddings
    \/ DeleteDocument

Spec == Init /\ [][Next]_vars


\* ------------------------------------------- the index search on its own

\* The codes inserted and searched for: every byte of a code is one of these.
SearchBytes == {0, 240, 254, 255}

SearchCodes == {Array([b \in 1..CodeBytes |-> v]) : v \in SearchBytes}

\* raw_index.add(code): the new entry gets the next id.
AddCode(code) ==
    /\ Len(index) < MaxDocs
    /\ index' = Append(index, code)
    /\ all_documents' = Append(all_documents, Document(Len(all_documents) + 1))
    /\ last' = NoCall
    /\ UNCHANGED <<retriever, argsort_ties, classes>>

\* raw_index.search(query, k) as retrieve calls it (line 236).
SearchCall(q, k) ==
    /\ last' = [op |-> "search", query |-> q, k |-> k, ids |-> Search(index, q, k)]
    /\ UNCHANGED <<all_documents, index, retriever, argsort_ties, classes>>

InitSearch ==
    /\ all_documents = <<>>
    /\ index = <<>>
    /\ candidates = MaxDocs
    /\ top_k = 1
    /\ batch_size = 1
    /\ devices = 1
    /\ training = TRUE
    /\ num_hard_negatives = 0
    /\ argsort_ties = "stable"
    /\ classes = ImportedClasses
    /\ last = NoCall

NextSearch ==
    \/ \E code \in SearchCodes : AddCode(code)
    \/ \E q \in SearchCodes, k \in 1..(MaxDocs + 1) : SearchCall(q, k)

SpecSearch == InitSearch /\ [][NextSearch]_vars


\* ------------------------------------------ the pack / unpack round trip

\* A +1/-1 code as the hash layer gives it, packed as retrieve packs the
\* query (line 233) and unpacked as retrieve unpacks a passage (lines 239
\* and 247).
Pack(code) == PackBits(Where(code))

Unpack(packed) == ToPlusMinus(UnpackBits(packed))

\* Every +1/-1 sequence of n values.
RECURSIVE CodesOfLen(_)
CodesOfLen(n) ==
    IF n = 0 THEN {<<>>}
    ELSE {Append(c, v) : c \in CodesOfLen(n - 1), v \in {-1, 1}}

ShortCodes == UNION {CodesOfLen(n) : n \in 1..MaxBits}

\* Codes of the dimension of a BERT-base encoder, 768: all +1, all -1,
\* alternating, and +1 in the last position only.
LongDims == {768}

LongCodes ==
    UNION {{Array([i \in 1..d |-> 1]),
            Array([i \in 1..d |-> -1]),
            Array([i \in 1..d |-> IF i % 2 = 1 THEN 1 ELSE -1]),
            Array([i \in 1..d |-> IF i = d THEN 1 ELSE -1])} : d \in LongDims}

\* Packed codes: every single byte, and two bytes from the search codes.
PackedCodes == {<<v>> : v \in 0..255} \cup {<<v, w>> : v, w \in SearchBytes}

PackThenUnpack ==
    /\ last.op = "code"
    /\ last' = [op |-> "pack_unpack", code |-> last.code,
                packed |-> Pack(last.code), unpacked |-> Unpack(Pack(last.code))]
    /\ UNCHANGED <<all_documents, index, retriever, argsort_ties, classes>>

UnpackThenPack ==
    /\ last.op = "packed"
    /\ last' = [op |-> "unpack_pack", packed |-> last.packed,
                unpacked |-> Unpack(last.packed),
                repacked |-> Pack(Unpack(last.packed))]
    /\ UNCHANGED <<all_documents, index, retriever, argsort_ties, classes>>

InitRoundTrip ==
    /\ all_documents = <<>>
    /\ index = <<>>
    /\ candidates = MaxDocs
    /\ top_k = 1
    /\ batch_size = 1
    /\ devices = 1
    /\ training = TRUE
    /\ num_hard_negatives = 0
    /\ argsort_ties = "stable"
    /\ classes = ImportedClasses
    /\ \/ \E c \in ShortCodes \cup LongCodes : last = [op |-> "code", code |-> c]
       \/ \E p \in PackedCodes : last = [op |-> "packed", packed |-> p]

NextRoundTrip == PackThenUnpack \/ UnpackThenPack

SpecRoundTrip == InitRoundTrip /\ [][NextRoundTrip]_vars


\* ------------------------------------------ HashLayer subclass registration

ClassNames == {"SignHash", "TanhHash", "StepHash", "GreedyHash"}

\* The class in whose namespace the attribute lookup cls.subclasses ends:
\* the first class along the bases of c whose body assigned it, "" when the
\* lookup reaches nn.Module without finding one (AttributeError).
RECURSIVE Owner(_, _)
Owner(table, c) ==
    IF c \notin DOMAIN table THEN ""
    ELSE IF table[c].subclasses # <<>> THEN c
    ELSE Owner(table, table[c].base)

\* class name(base): ...   with or without `subclasses = {}` in its body.
\* type.__new__ builds the class and calls HashLayer.__init_subclass__
\* (lines 6-12), which runs cls.subclasses[cls.__name__] = cls; when that
\* raises, the class statement fails and the name is not bound.
DefineSubclass(name, base, declares) ==
    /\ name \notin DOMAIN classes
    /\ base \in DOMAIN classes
    /\ LET cls == [base |-> base,
                   subclasses |-> IF declares THEN <<{}>> ELSE <<>>]
           table == [c \in DOMAIN classes \cup {name} |->
                        IF c = name THEN cls ELSE classes[c]]
           owner == Owner(table, name)
           call == [op |-> "class", name |-> name, base |-> base,
                    declares |-> declares]
       IN  IF owner = ""
           THEN /\ classes' = classes
                /\ last' = call @@ [status |-> "AttributeError", registry |-> ""]
           ELSE /\ classes' = [table EXCEPT ![owner].subclasses =
                                    <<@[1] \cup {name}>>]
                /\ last' = call @@ [status |-> "ok", registry |-> owner]
    /\ UNCHANGED <<all_documents, index, retriever, argsort_ties>>

InitRegistry ==
    /\ all_documents = <<>>
    /\ index = <<>>
    /\ candidates = MaxDocs
    /\ top_k = 1
    /\ batch_size = 1
    /\ devices = 1
    /\ training = TRUE
    /\ num_hard_negatives = 0
    /\ argsort_ties = "stable"
    /\ classes = ImportedClasses
    /\ last = NoCall

NextRegistry ==
    \E name \in ClassNames, base \in DOMAIN classes, declares \in BOOLEAN :
        DefineSubclass(name, base, declares)

SpecRegistry == InitRegistry /\ [][NextRegistry]_vars


\* ------------------------------------------------ packing the query code

\* The binary output of the query, as line 233 may receive it: np.where
\* takes any number, so the components are drawn from -1, 0 and +1.
RECURSIVE OutputsOfLen(_)
OutputsOfLen(n) ==
    IF n = 0 THEN {<<>>}
    ELSE {Append(c, v) : c \in OutputsOfLen(n - 1), v \in {-1, 0, 1}}

BinaryOutputs(longest) == UNION {OutputsOfLen(n) : n \in 1..longest}

\* bin_query_embeddings of line 233, the code that line 236 searches for.
PackQuery ==
    /\ last.op = "binary_output"
    /\ last' = [op |-> "pack_query", query_emb_binary |-> last.query_emb_binary,
                bin_query_embeddings |-> PackBits(Where(last.query_emb_binary))]
    /\ UNCHANGED <<all_documents, index, retriever, argsort_ties, classes>>

InitPackQuery ==
    /\ all_documents = <<>>
    /\ index = <<>>
    /\ candidates = MaxDocs
    /\ top_k = 1
    /\ batch_size = 1
    /\ devices = 1
    /\ training = TRUE
    /\ num_hard_negatives = 0
    /\ argsort_ties = "stable"
    /\ classes = ImportedClasses
    /\ \E x \in BinaryOutputs(MaxBits) : last = [op |-> "binary_output", query_emb_binary |-> x]

NextPackQuery == PackQuery

SpecPackQuery == InitPackQuery /\ [][NextPackQuery]_vars


\* ================================================================= claims

\* A retrieve call has just returned or raised.  The store's writers clear
\* `last`, so index and all_documents are those the call saw.
Retrieved == last.op = "retrieve"

\* The ways to pick m shortlist positions, in order, without repetition.
Selections(m, n) ==
    {sel \in [1..m -> 1..n] : \A i, j \in 1..m : i # j => sel[i] # sel[j]}

\* C1: on a non-empty index retrieve returns exactly min(top_k, n) documents,
\* n the number of shortlisted candidates, each the store's document of a
\* distinct shortlisted id, in non-increasing order of the dot product of
\* dense_query with the candidate's +1/-1 code, and no shortlisted candidate
\* left out scores strictly higher than a returned one.
C1_TopKByDotProduct ==
    (Retrieved /\ Len(index) > 0) =>
        /\ last.status = "ok"
        /\ LET n == Len(last.ids_arr)
               m == Min(last.top_k, n)
               score(i) ==
                   Dot(ToPlusMinus(UnpackBits(index[last.ids_arr[i] + 1])),
                       last.dense_query)
           IN  /\ Len(last.documents) = m
               /\ \E sel \in Selections(m, n) :
                     /\ \A i \in 1..m :
                           last.documents[i] =
                               all_documents[last.ids_arr[sel[i]] + 1]
                     /\ \A i \in 1..(m - 1) : score(sel[i]) >= score(sel[i + 1])
                     /\ \A i \in 1..m : \A j \in 1..n :
                           (\A h \in 1..m : sel[h] # j) => score(j) <= score(sel[i])

\* C2: the re-ranking is stable: of two shortlisted candidates with equal
\* scores, the one earlier in the shortlist comes earlier in the result.
C2_StableRerank ==
    (Retrieved /\ last.status = "ok") =>
        \A a, b \in 1..Len(last.ids_arr) :
            (a < b /\ last.scores_arr[a] = last.scores_arr[b]) =>
                \A pb \in 1..Len(last.documents) :
                    last.documents[pb] = all_documents[last.ids_arr[b] + 1] =>
                        \E pa \in 1..(pb - 1) :
                            last.documents[pa] = all_documents[last.ids_arr[a] + 1]

\* C3: the number of candidates asked of the index search is
\* min(configured candidates, index size): never more than the index holds.
C3_RequestClampedToIndex ==
    Retrieved => last.requested = Min(last.candidates_before, Len(index))

\* C4: retrieve on an index with no entries returns an empty sequence and
\* raises nothing.
C4_EmptyIndexReturnsEmpty ==
    (Retrieved /\ Len(index) = 0) =>
        (last.status = "ok" /\ last.documents = <<>>)


\* C5: two retrieve calls with the same query and the same top_k, the index
\* and the document store unmodified, return identical ordered results,
\* whatever was called before them.
C5_RetrieveIdempotent ==
    [][(/\ last.op = "retrieve"
        /\ last'.op = "retrieve"
        /\ last'.query = last.query
        /\ last'.top_k = last.top_k
        /\ UNCHANGED <<index, all_documents>>)
       => (/\ last'.status = last.status
           /\ last'.documents = last.documents)]_vars

\* C9: a retrieve call writes no shared state: after it returns, the index,
\* the document store and every attribute of the retriever (the candidate
\* count and top_k among them) are what they were before the call.
C9_RetrieveWritesNothing ==
    [][((\E text \in QueryTexts, k \in TopKArgs : Retrieve(text, k))
        /\ last'.status = "ok")
       => UNCHANGED <<index, all_documents, retriever>>]_vars

\* C7: with the index {0: 11110000, 1: 11111111, 2: 00000000} (the ids 1, 2, 3
\* of the scenario, counted from 0), query code 11111110, 2 candidates and
\* top_k = 1, a dense_query whose dot product with the +1/-1 code of the first
\* entry is strictly larger than with the second's makes retrieve return the
\* first entry's document, although the second is nearer in Hamming distance.
ScenarioIndex == <<<<240>>, <<255>>, <<0>>>>

ScenarioCall ==
    /\ Retrieved
    /\ index = ScenarioIndex
    /\ last.bin_query = <<254>>
    /\ last.requested = 2
    /\ last.top_k = 1
    /\ Dot(ToPlusMinus(UnpackBits(index[1])), last.dense_query)
         > Dot(ToPlusMinus(UnpackBits(index[2])), last.dense_query)

C7_RerankByDotProduct ==
    ScenarioCall => (last.status = "ok" /\ last.documents = <<all_documents[1]>>)

\* The scenario happens: the search put the second entry first, for its
\* smaller Hamming distance, and the call returned the first one's document.
C7_Witness ==
    /\ ScenarioCall
    /\ last.ids_arr = <<1, 0>>
    /\ Hamming(index[2], last.bin_query) < Hamming(index[1], last.bin_query)
    /\ last.documents = <<Document(1)>>

\* C10: embed_queries returns (dense_vectors, binary_vectors) with exactly one
\* row per input text, row i being the query tower's eval-mode output for
\* text i, dense and binary row of a position from the same query, for every
\* batch size.
C10_EmbedQueriesRowPerText ==
    last.op = "embed_queries" =>
        /\ Len(last.dense_vectors) = Len(last.texts)
        /\ Len(last.binary_vectors) = Len(last.texts)
        /\ \A i \in 1..Len(last.texts) :
              /\ last.dense_vectors[i] =
                    Dropout(TowerOutput(last.texts[i]), FALSE, {})
              /\ last.binary_vectors[i] = HashForward(last.dense_vectors[i])

\* Two different texts went through two batches.
C10_Witness ==
    /\ last.op = "embed_queries"
    /\ Len(last.texts) = 2
    /\ last.texts[1] # last.texts[2]
    /\ Len(Batches(last.texts, batch_size)) = 2
    /\ Len(last.dense_vectors) = 2
    /\ last.dense_vectors[1] # last.dense_vectors[2]

\* C8: for any inserted codes and any query code, search(query, k) returns
\* the k entries nearest in Hamming distance, in ascending distance with ties
\* by ascending id; for k at least the number N of entries, all N in that
\* order.
SearchKey(id) == <<Hamming(index[id + 1], last.query), id>>

KeyBefore(a, b) == a[1] < b[1] \/ (a[1] = b[1] /\ a[2] < b[2])

C8_SearchNearestByHamming ==
    last.op = "search" =>
        LET N == Len(index)
            ids == last.ids
            returned == {ids[i] : i \in 1..Len(ids)}
        IN  /\ Len(ids) = Min(last.k, N)
            /\ returned \subseteq 0..(N - 1)
            /\ \A i \in 1..(Len(ids) - 1) :
                  KeyBefore(SearchKey(ids[i]), SearchKey(ids[i + 1]))
            /\ \A r \in returned, o \in (0..(N - 1)) \ returned :
                  KeyBefore(SearchKey(r), SearchKey(o))

\* A search cut between two entries of the same distance, two returned
\* entries being tied as well.
C8_Witness ==
    /\ last.op = "search"
    /\ Len(index) = 3
    /\ last.k = 2
    /\ Len(last.ids) = 2
    /\ SearchKey(last.ids[1])[1] = SearchKey(last.ids[2])[1]
    /\ \E o \in 0..2 : /\ o \notin {last.ids[1], last.ids[2]}
                       /\ SearchKey(o)[1] = SearchKey(last.ids[2])[1]

\* C6: packed and unpacked +1/-1 codes interconvert losslessly for D in
\* {1, 8, 9, 768}: unpacking the packed code gives back the code, exactly D
\* values, and packing the unpacked form of a packed code gives back the
\* packed code.
ClaimDims == {1, 8, 9, 768}

C6_PackUnpackRoundTrip ==
    /\ (last.op = "pack_unpack" /\ Len(last.code) \in ClaimDims) =>
            /\ Len(last.unpacked) = Len(last.code)
            /\ last.unpacked = last.code
    /\ last.op = "unpack_pack" => last.repacked = last.packed

\* C11: the packed query code given to the index search has bit i (counted
\* from 0) equal to 1 exactly when component i of the query's binary output
\* is > 0, a component of exactly 0 giving bit 0; bit i is stored in byte
\* floor(i / 8), most significant bit first.
C11_QueryBitIffPositive ==
    last.op = "pack_query" =>
        LET x == last.query_emb_binary
            packed == last.bin_query_embeddings
        IN  /\ Len(packed) = (Len(x) + 7) \div 8
            /\ \A i \in 0..(Len(x) - 1) :
                  ((packed[(i \div 8) + 1] \div (2 ^ (7 - (i % 8)))) % 2 = 1)
                      <=> (x[i + 1] > 0)

\* A 9-component output whose first component is exactly 0 and whose last is
\* positive: the first byte has its top bit clear, the second is 10000000.
C11_Witness ==
    /\ last.op = "pack_query"
    /\ Len(last.query_emb_binary) = 9
    /\ last.query_emb_binary[1] = 0
    /\ last.query_emb_binary[2] = 1
    /\ last.query_emb_binary[9] = 1
    /\ last.bin_query_embeddings[1] < 128
    /\ last.bin_query_embeddings[2] = 128

\* C12: with several devices configured only the first is used for
\* inference: every forward pass of retrieve, embed_queries and
\* embed_documents runs on devices[0] alone, its inputs resident there.
InferenceCall == last.op \in {"retrieve", "embed_queries", "embed_documents"}

C12_FirstDeviceOnly ==
    InferenceCall => (last.input_device = 0 /\ last.devices_used = {0})

\* C12 as the code has it: the inputs of every forward pass are moved to
\* devices[0]; the pass runs on devices[0] alone when one device is
\* configured or the batch has a single row, as the batch of retrieve has;
\* with n > 1 devices a batch of r rows is split into chunks of ceil(r / n)
\* rows and chunk j runs on device j, so an embed_queries or embed_documents
\* call over batches of several rows uses more than the first device.
BatchRows ==
    LET items == IF last.op = "embed_queries" THEN last.texts ELSE last.docs
    IN  (IF Len(items) >= batch_size THEN {batch_size} ELSE {})
        \cup (IF Len(items) % batch_size # 0
              THEN {Len(items) % batch_size} ELSE {})

C12_DataParallelInference ==
    InferenceCall =>
        /\ last.input_device = 0
        /\ last.devices_used \subseteq 0..(devices - 1)
        /\ devices = 1 => last.devices_used = {0}
        /\ last.op = "retrieve" => last.devices_used = {0}
        /\ last.op # "retrieve" =>
              \A j \in 0..(devices - 1) :
                  j \in last.devices_used <=>
                      \E r \in BatchRows : j * ((r + devices - 1) \div devices) < r

\* An embed_queries call on two devices whose batch of two rows ran on both.
C12_Witness ==
    /\ last.op = "embed_queries"
    /\ devices = 2
    /\ Len(last.texts) = 2
    /\ batch_size = 2
    /\ last.devices_used = {0, 1}

\* C13: defining any subclass of HashLayer succeeds and records the class in
\* the HashLayer subclass registry under its name: after any sequence of
\* subclass definitions the registry holds every defined subclass.
C13_SubclassRegistered ==
    last.op = "class" =>
        /\ last.status = "ok"
        /\ classes["HashLayer"].subclasses # <<>>
        /\ \A c \in DOMAIN classes \ {"HashLayer"} :
              c \in classes["HashLayer"].subclasses[1]

\* C14: after any embed_documents call the processor's num_hard_negatives
\* is 0, whether it was 0 before or had been set by train; retrieve and
\* embed_queries never change it.
C14_HardNegativesReset ==
    [][/\ last'.op = "embed_documents" => num_hard_negatives' = 0
       /\ last'.op \in {"retrieve", "embed_queries"} =>
              num_hard_negatives' = num_hard_negatives]_vars

\* embed_documents found the value train had left, 1, and reset it.
C14_Witness ==
    /\ last.op = "embed_documents"
    /\ last.hard_negatives_before = 1
    /\ num_hard_negatives = 0

\* C15: across retrieve calls interleaved with growth and shrinkage of the
\* store, self.candidates never increases: a retrieve leaves it at the
\* smaller of its value before the call and len(all_documents) at the call,
\* and no other step changes it.  From the constructor value on, this is
\* min(constructor value, smallest len(all_documents) seen by a retrieve).
C15_CandidatesNeverRaised ==
    [][/\ candidates' <= candidates
       /\ last'.op = "retrieve" =>
              candidates' = Min(candidates, Len(all_documents))
       /\ last'.op # "retrieve" => candidates' = candidates]_vars

\* A retrieve that returned documents from a store larger than
\* self.candidates, which an earlier retrieve had lowered below every
\* constructor value explored and which this one did not raise.
C15_Witness ==
    /\ Retrieved
    /\ last.status = "ok"
    /\ candidates = last.candidates_before
    /\ candidates < Len(all_documents)
    /\ \A c \in Configs : candidates < c.candidates

\* C16: retrieve never changes the model's train / eval mode and encodes the
\* query in the mode the model is in (train mode: dropout, a component is
\* dropped or rescaled; eval mode: the plain output); every embed_queries
\* and embed_documents call puts the model in eval mode before its forward
\* passes and leaves it there.
PlainOutput == [q \in QueryTexts |-> TowerOutput(q)]

C16_ModeFrame ==
    [][/\ last'.op = "retrieve" =>
              /\ training' = training
              /\ LET x == PlainOutput[last'.query]
                     y == last'.dense_query
                 IN  \A i \in 1..D :
                        IF training
                        THEN y[i] = 0 \/ y[i] = TrainScale * x[i]
                        ELSE y[i] = EvalScale * x[i]
       /\ last'.op \in {"embed_queries", "embed_documents"} => training' = FALSE
       /\ last'.op = "embed_queries" =>
              \A t \in 1..Len(last'.texts) :
                  LET x == PlainOutput[last'.texts[t]]
                      y == last'.dense_vectors[t]
                  IN  \A i \in 1..D : y[i] = EvalScale * x[i]]_vars

\* A retrieve in train mode: the query was encoded with dropout (the last
\* component dropped, the first rescaled) and the model is still in train
\* mode.
C16_Witness ==
    /\ Retrieved
    /\ training
    /\ TowerOutput(last.query)[D] # 0
    /\ last.dense_query[D] = 0
    /\ last.dense_query[1] = TrainScale * TowerOutput(last.query)[1]

=============================================================================
